---------------------------- MODULE Spec2Model ----------------------------
(***************************************************************************)
(* Model of the tracker scraper (src/tracker_scraper.rs): one run of main  *)
(* over one catalogue file.  The main thread cuts the data lines into      *)
(* batches, spawns one batch thread per batch (PARALLEL_BATCHES per        *)
(* chunk), every batch thread runs process_batch, which spawns one tracker *)
(* thread per configured tracker (scrape_all_trackers_parallel), folds the *)
(* tracker result maps into one result per line and merges it into the     *)
(* shared result map and counters; main finally rewrites the catalogue.    *)
(*                                                                         *)
(* Line indices are 0-based as in the source; lists that the source keeps  *)
(* in a Vec are sequences.                                                 *)
(***************************************************************************)
EXTENDS Integers, Sequences, FiniteSets

(***************************************************************************)
(* Bounds of the model and program constants.                              *)
(***************************************************************************)
\* const BATCH_SIZE: usize = 50, scaled down so that several batches exist.
BATCH_SIZE == 1
\* const PARALLEL_BATCHES: usize = 10, scaled down so that several chunks exist.
PARALLEL_BATCHES == 2
\* Largest number of data lines of a catalogue file with arbitrary lines.
MaxLines == 2
\* Largest seeders / leechers value a tracker reports or a line stores.
MaxCount == 1
\* The protocol cap of a scrape request: 74.min(infohashes.len()).
ProtocolCap == 74
\* A record needs at least 8 ';'-separated fields (CsvRecord::from_line).
MinFields == 8
\* An infohash is 40 hexadecimal characters, 20 bytes.
HexLen == 40
HashBytes == 20

\* const TRACKERS: the configured trackers (a shortened list).
TRACKERS == {1, 2}

(***************************************************************************)
(* Strings, identifiers and catalogue lines.                               *)
(*                                                                         *)
(* An identifier string is modelled by what the code looks at: its length, *)
(* whether all its characters are hexadecimal digits, whether it has       *)
(* upper-case letters, and which 20-byte value it spells (val).            *)
(***************************************************************************)
IdStr(len, hex, upper, val) == [len |-> len, hex |-> hex, upper |-> upper, val |-> val]

\* str::to_lowercase
to_lowercase(s) == [s EXCEPT !.upper = FALSE]

\* hex::decode(h).ok(): Some(bytes) for an even number of hexadecimal digits.
hex_decode(s) ==
    IF s.hex /\ s.len % 2 = 0
    THEN [some |-> TRUE, bytes |-> [n |-> s.len \div 2, val |-> s.val]]
    ELSE [some |-> FALSE]

\* hex::encode(bytes): lower-case hexadecimal digits, two per byte.
hex_encode(b) == IdStr(2 * b.n, TRUE, FALSE, b.val)

None == [some |-> FALSE]
Some(r) == [some |-> TRUE, rec |-> r]

\* A catalogue line: the first field, the number of ';'-separated fields and
\* the values the seeders, leechers and scraped_date fields parse to.
Line(id, nfields, s, l, d) ==
    [infohash |-> id, nfields |-> nfields, seeders |-> s, leechers |-> l,
     scraped_date |-> d]

\* CsvRecord::from_line
from_line(line) ==
    IF line.nfields < MinFields
    THEN None
    ELSE Some([infohash |-> line.infohash, seeders |-> line.seeders,
               leechers |-> line.leechers, scraped_date |-> line.scraped_date])

\* CsvRecord::to_line: always 8 fields.
to_line(record) ==
    Line(record.infohash, MinFields, record.seeders, record.leechers,
         record.scraped_date)

\* chrono::Utc::now().timestamp(): later than every stored scraped_date.
Now == 1

\* The identifiers the input lines are drawn from.
ValidLower == IdStr(HexLen, TRUE, FALSE, 1)
ValidUpper == IdStr(HexLen, TRUE, TRUE, 2)
NonHex == IdStr(HexLen, FALSE, FALSE, 3)
WrongLength == IdStr(HexLen - 1, TRUE, FALSE, 4)

\* The lines a catalogue file is drawn from.
LineKinds ==
    { Line(ValidLower, MinFields, 0, 0, 0),
      Line(ValidUpper, MinFields, MaxCount, 0, 0),
      Line(ValidLower, 1, 0, 0, 0),
      Line(NonHex, MinFields, 0, 0, 0),
      Line(NonHex, 2, 0, 0, 0),
      Line(WrongLength, MinFields, MaxCount, 0, 0) }

\* The lines of the longest files: a well-formed record, a record whose
\* identifier is not hexadecimal, a record whose identifier is too short.
PlainKinds ==
    { Line(ValidLower, MinFields, 0, 0, 0),
      Line(NonHex, MinFields, 0, 0, 0),
      Line(WrongLength, MinFields, MaxCount, 0, 0) }

Min(a, b) == IF a < b THEN a ELSE b
Max(a, b) == IF a > b THEN a ELSE b

\* The batch numbers of a file of at most MaxLines lines.
BatchIds == 0 .. (((MaxLines + 1) + BATCH_SIZE - 1) \div BATCH_SIZE) - 1


(***************************************************************************)
(* scrape_udp_tracker: one endpoint session.  `net` is what the network    *)
(* and the random generator do during the call: the outcome of each socket *)
(* call, the two random transaction ids and the two datagrams received.    *)
(***************************************************************************)
EmptyMap == << >>

\* HashMap::insert
Insert(m, k, v) == [x \in (DOMAIN m) \cup {k} |-> IF x = k THEN v ELSE m[x]]

\* UdpSocket::recv into a buffer of `cap` bytes: a longer datagram is cut.
recv_len(dlen, cap) == Min(dlen, cap)

ConnectBuf == 16
ResponseBuf == 2048

\* The record of the scrape response that starts at byte `offset`.
record_at(resp, offset) == resp.recs[((offset - 8) \div 12) + 1]

\* Lines 143-164: the positional decoding loop over infohashes[..chunk_size].
RECURSIVE decode_loop(_, _, _, _, _, _)
decode_loop(infohashes, chunk_size, resp, n, j, st) ==
    IF j > chunk_size
    THEN st.results
    ELSE IF st.offset + 12 <= n
         THEN decode_loop(infohashes, chunk_size, resp, n, j + 1,
                  [offset |-> st.offset + 12,
                   results |-> Insert(st.results,
                       to_lowercase(hex_encode(infohashes[j])),
                       [seeders |-> record_at(resp, st.offset).seeders,
                        leechers |-> record_at(resp, st.offset).leechers])])
         ELSE decode_loop(infohashes, chunk_size, resp, n, j + 1, st)

\* Lines 136-169: receive and decode the scrape response.
read_scrape_response(infohashes, chunk_size, net) ==
    LET resp == net.scrape_resp
        n == recv_len(resp.dlen, ResponseBuf)
    IN  IF resp.ok /\ n >= 8 /\ resp.action = 2 /\ resp.trans = net.scrape_trans_id
        THEN decode_loop(infohashes, chunk_size, resp, n, 1,
                         [offset |-> 8, results |-> EmptyMap])
        ELSE EmptyMap

scrape_udp_tracker(infohashes, net) ==
    LET chunk_size == Min(ProtocolCap, Len(infohashes))
        cr == net.connect_resp
    IN  IF net.setup # "ok" THEN EmptyMap
        ELSE IF ~net.send_connect_ok THEN EmptyMap
        ELSE IF ~(cr.ok /\ recv_len(cr.dlen, ConnectBuf) = 16) THEN EmptyMap
        ELSE IF cr.action # 0 \/ cr.trans # net.transaction_id THEN EmptyMap
        ELSE IF ~net.send_scrape_ok THEN EmptyMap
        ELSE read_scrape_response(infohashes, chunk_size, net)

(***************************************************************************)
(* The network behaviours a session is checked against.                    *)
(***************************************************************************)
Counts == 0 .. MaxCount
StatsRec == [seeders : Counts, leechers : Counts]

\* A session in which every step succeeds and the tracker answers `recs`
\* in a datagram of dlen bytes.
GoodNet(dlen, recs) ==
    [setup |-> "ok", send_connect_ok |-> TRUE, transaction_id |-> 1,
     connect_resp |-> [ok |-> TRUE, dlen |-> 16, action |-> 0, trans |-> 1],
     send_scrape_ok |-> TRUE, scrape_trans_id |-> 2,
     scrape_resp |-> [ok |-> TRUE, dlen |-> dlen, action |-> 2, trans |-> 2,
                      recs |-> recs]]

AnsweringNets(k) ==
    { GoodNet(8 + 12 * k, recs) : recs \in [1 .. k -> StatsRec] }

\* The sessions that differ from the session g in one step that fails: a
\* socket call returns an error, a receive times out, a response is invalid.
FailuresOf(g) ==
    {     [g EXCEPT !.setup = "bind"],
          [g EXCEPT !.setup = "set_read_timeout"],
          [g EXCEPT !.setup = "connect"],
          [g EXCEPT !.send_connect_ok = FALSE],
          [g EXCEPT !.connect_resp.ok = FALSE],
          [g EXCEPT !.connect_resp.dlen = 8],
          [g EXCEPT !.connect_resp.action = 3],
          [g EXCEPT !.connect_resp.trans = 2],
          [g EXCEPT !.send_scrape_ok = FALSE],
          [g EXCEPT !.scrape_resp.ok = FALSE],
          [g EXCEPT !.scrape_resp.dlen = 4],
          [g EXCEPT !.scrape_resp.action = 3],
          [g EXCEPT !.scrape_resp.trans = 1] }

FailingNets(k) == UNION { FailuresOf(g) : g \in AnsweringNets(k) }

\* Datagrams cut short: the last record is incomplete or missing.
TruncatedNets(k) ==
    { GoodNet(8 + 12 * r + x, recs) :
        r \in 0 .. (k - 1), x \in {0, 11}, recs \in [1 .. k -> {[seeders |-> MaxCount, leechers |-> MaxCount]}] }

Nets(k) == AnsweringNets(k) \cup FailingNets(k) \cup TruncatedNets(k)

\* Lines 182-184: std::panic::catch_unwind around the session; `panics` tells
\* whether the call unwinds instead of returning.
catch_unwind(infohashes, net, panics) ==
    IF panics
    THEN [ok |-> FALSE]
    ELSE [ok |-> TRUE, value |-> scrape_udp_tracker(infohashes, net)]

\* What the call at lines 182-184 can evaluate to, over the behaviours of
\* the network.
SessionOutcomes(infohashes) ==
    { catch_unwind(infohashes, net, panics) :
        net \in Nets(Min(ProtocolCap, Len(infohashes))), panics \in BOOLEAN }


(***************************************************************************)
(* process_batch                                                           *)
(***************************************************************************)
\* Lines 208-212: the identifiers that decode to 20 bytes, in batch order.
RECURSIVE decode_hashes(_)
decode_hashes(batch_hashes) ==
    IF batch_hashes = << >>
    THEN << >>
    ELSE LET d == hex_decode(Head(batch_hashes))
             rest == decode_hashes(Tail(batch_hashes))
         IN  IF d.some /\ d.bytes.n = HashBytes THEN <<d.bytes>> \o rest ELSE rest

\* Lines 215-221: the result when no identifier of the batch decodes.
RECURSIVE undecoded_results(_, _)
undecoded_results(batch_indices, lines) ==
    IF batch_indices = << >>
    THEN << >>
    ELSE <<[idx |-> Head(batch_indices), record |-> from_line(lines[Head(batch_indices)])]>>
         \o undecoded_results(Tail(batch_indices), lines)

\* consolidate with the fold replaced by an assignment: the last tracker
\* result map that holds the identifier decides.
RECURSIVE consolidate_last_wins(_, _, _, _)
consolidate_last_wins(results, hash, k, acc) ==
    IF k > Len(results)
    THEN acc
    ELSE IF hash \in DOMAIN results[k]
         THEN consolidate_last_wins(results, hash, k + 1,
                  [max_seeders |-> results[k][hash].seeders,
                   max_leechers |-> results[k][hash].leechers,
                   any_success |-> TRUE])
         ELSE consolidate_last_wins(results, hash, k + 1, acc)

\* Lines 236-246: the fold over the tracker result maps for one identifier.
RECURSIVE consolidate(_, _, _, _)
consolidate(results, hash, k, acc) ==
    IF k > Len(results)
    THEN acc
    ELSE IF hash \in DOMAIN results[k]
         THEN consolidate(results, hash, k + 1,
                  [max_seeders |-> Max(acc.max_seeders, results[k][hash].seeders),
                   max_leechers |-> Max(acc.max_leechers, results[k][hash].leechers),
                   any_success |-> TRUE])
         ELSE consolidate(results, hash, k + 1, acc)

NoAnswer == [max_seeders |-> 0, max_leechers |-> 0, any_success |-> FALSE]

\* classify with the last branch lost: an identifier whose answers are all
\* zero keeps its record, as an identifier without answers does.
classify_zero_as_failed(line_idx, original_line, c) ==
    LET r == from_line(original_line)
    IN  IF ~c.any_success \/ ~(c.max_seeders > 0 \/ c.max_leechers > 0)
        THEN IF r.some THEN <<[idx |-> line_idx, record |-> r]>> ELSE << >>
        ELSE IF r.some
             THEN <<[idx |-> line_idx,
                     record |-> Some([r.rec EXCEPT !.seeders = c.max_seeders,
                                                   !.leechers = c.max_leechers,
                                                   !.scraped_date = Now])]>>
             ELSE << >>

\* Lines 248-263: what is pushed to final_results for one identifier.
classify(line_idx, original_line, c) ==
    LET r == from_line(original_line)
    IN  IF ~c.any_success
        THEN IF r.some THEN <<[idx |-> line_idx, record |-> r]>> ELSE << >>
        ELSE IF c.max_seeders > 0 \/ c.max_leechers > 0
        THEN IF r.some
             THEN <<[idx |-> line_idx,
                     record |-> Some([r.rec EXCEPT !.seeders = c.max_seeders,
                                                   !.leechers = c.max_leechers,
                                                   !.scraped_date = Now])]>>
             ELSE << >>
        ELSE <<[idx |-> line_idx, record |-> None]>>

\* Lines 228-266: the consolidation loop of process_batch.
RECURSIVE consolidate_batch(_, _, _, _, _)
consolidate_batch(batch_indices, batch_hashes, lines, results, i) ==
    IF i > Len(batch_indices) \/ i > Len(batch_hashes)
    THEN << >>
    ELSE classify(batch_indices[i], lines[batch_indices[i]],
                  consolidate(results, to_lowercase(batch_hashes[i]), 1, NoAnswer))
         \o consolidate_batch(batch_indices, batch_hashes, lines, results, i + 1)

(***************************************************************************)
(* main                                                                    *)
(***************************************************************************)
\* Lines 338-346: the batch of the lines i .. min(i + BATCH_SIZE, total) - 1.
RECURSIVE build_batch(_, _, _)
build_batch(lines, idx, stop) ==
    IF idx >= stop
    THEN [indices |-> << >>, hashes |-> << >>]
    ELSE LET rest == build_batch(lines, idx + 1, stop)
             infohash == lines[idx].infohash
         IN  IF infohash.len # 0 /\ infohash.len = HexLen
             THEN [indices |-> <<idx>> \o rest.indices,
                   hashes |-> <<infohash>> \o rest.hashes]
             ELSE rest

\* Lines 362-371: the merge of one batch result into the shared map and counters.
RECURSIVE merge_results(_, _, _)
merge_results(batch_results, records, s) ==
    IF batch_results = << >>
    THEN [records |-> records, stats |-> s]
    ELSE LET item == Head(batch_results)
             opt == item.record
             s1 == [s EXCEPT !.processed = @ + 1]
             s2 == IF opt.some /\ (opt.rec.seeders > 0 \/ opt.rec.leechers > 0)
                   THEN [s1 EXCEPT !.alive = @ + 1]
                   ELSE IF opt.some
                   THEN [s1 EXCEPT !.failed = @ + 1]
                   ELSE [s1 EXCEPT !.dead = @ + 1]
         IN  merge_results(Tail(batch_results), Insert(records, item.idx, opt), s2)

\* Lines 396-401: the lines written back, the header aside.
RECURSIVE final_lines(_, _, _)
final_lines(final_records, i, total) ==
    IF i >= total
    THEN << >>
    ELSE (IF i \in DOMAIN final_records /\ final_records[i].some
          THEN <<to_line(final_records[i].rec)>>
          ELSE << >>)
         \o final_lines(final_records, i + 1, total)


(***************************************************************************)
(* The state of one run over one file.                                     *)
(***************************************************************************)
VARIABLES
    data_lines,       \* main: the data lines of the file, by 0-based index
    main_pc,          \* main: "spawn", "join", "write" or "done"
    chunk_start,      \* main: the loop variable of the chunk loop
    batch_offset,     \* main: the loop variable of the batch loop
    handles,          \* main: the batch threads spawned and not yet joined
    updated_records,  \* shared: line index -> Option<CsvRecord>
    stats,            \* shared: the processed, alive, dead, failed counters
    records_lock,     \* shared: the threads holding the Mutex of updated_records
    stats_lock,       \* shared: the threads holding the Mutex of stats
    progress,         \* main: the counters of the progress reports printed
    catalogue,        \* the data lines of the file after fs::write
    batch_pc,         \* batch thread: "none", "spawned", "scraping",
                      \*   "aggregated", "locked_records", "locked" or
                      \*   "finished"
    batch_indices,    \* batch thread: the line indices it was given
    batch_hashes,     \* batch thread: the identifiers it was given
    hash_bytes,       \* process_batch: the decoded identifiers
    all_results,      \* scrape_all_trackers_parallel: the shared result list
    batch_results,    \* process_batch: its return value
    tracker_pc,       \* tracker thread: "none", "spawned", "running", "done"
    sessions,         \* the number of calls of scrape_udp_tracker
    session,          \* one call of scrape_udp_tracker, step by step
    csv,              \* csv_writer: the catalogue file and the last call
    magnet            \* csv_writer: one call of extract_infohash_from_magnet

main_vars == <<data_lines, main_pc, chunk_start, batch_offset, handles, progress,
              catalogue>>
shared_vars == <<updated_records, stats, records_lock, stats_lock>>
batch_vars == <<batch_pc, batch_indices, batch_hashes, hash_bytes, all_results,
                batch_results>>
tracker_vars == <<tracker_pc, sessions>>
run_vars == <<main_vars, shared_vars, batch_vars, tracker_vars>>
\* The variables a run over a file does not touch.
other_vars == <<session, csv, magnet>>
vars == <<run_vars, other_vars>>

total == Cardinality(DOMAIN data_lines)

ZeroStats == [processed |-> 0, alive |-> 0, dead |-> 0, failed |-> 0]

\* A well-formed record followed by a ninth field.
LongLine == Line(ValidLower, MinFields + 1, 0, 0, 0)

\* The catalogue files of a run (a file without data lines is skipped at
\* line 309): every file of up to MaxLines lines, the files of one more
\* line whose lines are plain, and the file of one line of nine fields.
Files ==
    (UNION { [0 .. (n - 1) -> LineKinds] : n \in 1 .. MaxLines })
    \cup [0 .. MaxLines -> PlainKinds]
    \cup [0 .. 0 -> {LongLine}]

\* The state in which main starts on one of the catalogue files `files`.
RunInit(files) ==
    /\ data_lines \in files
    /\ main_pc = "spawn"
    /\ chunk_start = 0
    /\ batch_offset = 0
    /\ handles = {}
    /\ updated_records = EmptyMap
    /\ stats = ZeroStats
    /\ records_lock = {}
    /\ stats_lock = {}
    /\ progress = << >>
    /\ catalogue = << >>
    /\ batch_pc = [b \in BatchIds |-> "none"]
    /\ batch_indices = [b \in BatchIds |-> << >>]
    /\ batch_hashes = [b \in BatchIds |-> << >>]
    /\ hash_bytes = [b \in BatchIds |-> << >>]
    /\ all_results = [b \in BatchIds |-> << >>]
    /\ batch_results = [b \in BatchIds |-> << >>]
    /\ tracker_pc = [b \in BatchIds |-> [t \in TRACKERS |-> "none"]]
    /\ sessions = [b \in BatchIds |-> [t \in TRACKERS |-> 0]]

\* No call of scrape_udp_tracker is followed step by step.
NoSession == [pc |-> "none"]

\* No call of append_torrents_to_csv is followed.
NoCsv == [file |-> << >>]

\* No call of extract_infohash_from_magnet is followed.
NoMagnet == [pc |-> "none"]

Init ==
    /\ RunInit(Files)
    /\ session = NoSession
    /\ csv = NoCsv
    /\ magnet = NoMagnet

(***************************************************************************)
(* The main thread.                                                        *)
(***************************************************************************)
\* Line 326: the step of the chunk loop.
chunk_step == BATCH_SIZE * PARALLEL_BATCHES

\* Line 330: the first line of the batch the batch loop is at.
batch_first == chunk_start + (batch_offset * BATCH_SIZE)

\* The batch number of the batch that starts at line i.
batch_number(i) == i \div BATCH_SIZE

current_batch == build_batch(data_lines, batch_first, Min(batch_first + BATCH_SIZE, total))

\* The batch loop without its bound of PARALLEL_BATCHES iterations.
MainSpawnBatch_unbounded ==
    /\ main_pc = "spawn"
    /\ batch_first < total
    /\ current_batch.hashes # << >>
    /\ batch_pc' = [batch_pc EXCEPT ![batch_number(batch_first)] = "spawned"]
    /\ batch_indices' = [batch_indices EXCEPT ![batch_number(batch_first)] = current_batch.indices]
    /\ batch_hashes' = [batch_hashes EXCEPT ![batch_number(batch_first)] = current_batch.hashes]
    /\ handles' = handles \cup {batch_number(batch_first)}
    /\ batch_offset' = batch_offset + 1
    /\ UNCHANGED other_vars
    /\ UNCHANGED <<data_lines, main_pc, chunk_start, progress, catalogue, shared_vars,
                   hash_bytes, all_results, batch_results, tracker_vars>>

\* Lines 329-375, a batch with identifiers: the batch thread is spawned.
MainSpawnBatch ==
    /\ main_pc = "spawn"
    /\ batch_offset < PARALLEL_BATCHES
    /\ batch_first < total
    /\ current_batch.hashes # << >>
    /\ batch_pc' = [batch_pc EXCEPT ![batch_number(batch_first)] = "spawned"]
    /\ batch_indices' = [batch_indices EXCEPT ![batch_number(batch_first)] = current_batch.indices]
    /\ batch_hashes' = [batch_hashes EXCEPT ![batch_number(batch_first)] = current_batch.hashes]
    /\ handles' = handles \cup {batch_number(batch_first)}
    /\ batch_offset' = batch_offset + 1
    /\ UNCHANGED other_vars
    /\ UNCHANGED <<data_lines, main_pc, chunk_start, progress, catalogue, shared_vars,
                   hash_bytes, all_results, batch_results, tracker_vars>>

\* Lines 348-350: a batch without identifiers is skipped.
MainSkipBatch ==
    /\ main_pc = "spawn"
    /\ batch_offset < PARALLEL_BATCHES
    /\ batch_first < total
    /\ current_batch.hashes = << >>
    /\ batch_offset' = batch_offset + 1
    /\ UNCHANGED other_vars
    /\ UNCHANGED <<data_lines, main_pc, chunk_start, handles, progress, catalogue,
                   shared_vars, batch_vars, tracker_vars>>

\* Lines 329-333: the batch loop ends.
MainEndChunk ==
    /\ main_pc = "spawn"
    /\ (batch_offset >= PARALLEL_BATCHES \/ batch_first >= total)
    /\ main_pc' = "join"
    /\ UNCHANGED other_vars
    /\ UNCHANGED <<data_lines, chunk_start, batch_offset, handles, progress, catalogue,
                   shared_vars, batch_vars, tracker_vars>>

\* The next handle of batch_handles: the batch threads are joined in the
\* order in which they were spawned.
next_handle == CHOOSE b \in handles : \A other \in handles : b <= other

\* Lines 378-380: handle.join() returns once the batch thread has ended.
MainJoin ==
    /\ main_pc = "join"
    /\ handles # {}
    /\ batch_pc[next_handle] = "finished"
    /\ handles' = handles \ {next_handle}
    /\ UNCHANGED other_vars
    /\ UNCHANGED <<data_lines, main_pc, chunk_start, batch_offset, progress, catalogue,
                   shared_vars, batch_vars, tracker_vars>>

\* Lines 382-391: every batch thread of the chunk is joined; print the
\* progress, go to the next chunk or leave the chunk loop.
MainReport ==
    /\ main_pc = "join"
    /\ handles = {}
    /\ stats_lock = {}
    /\ handles' = {}
    /\ progress' = Append(progress, stats)
    /\ chunk_start' = chunk_start + chunk_step
    /\ batch_offset' = 0
    /\ main_pc' = IF chunk_start' < total THEN "spawn" ELSE "write"
    /\ UNCHANGED other_vars
    /\ UNCHANGED <<data_lines, catalogue, shared_vars, batch_vars, tracker_vars>>

\* Lines 395-403: the catalogue is rewritten.
MainWrite ==
    /\ main_pc = "write"
    /\ catalogue' = final_lines(updated_records, 0, total)
    /\ main_pc' = "done"
    /\ UNCHANGED other_vars
    /\ UNCHANGED <<data_lines, chunk_start, batch_offset, handles, progress,
                   shared_vars, batch_vars, tracker_vars>>

(***************************************************************************)
(* A batch thread.                                                         *)
(***************************************************************************)
\* Lines 208-222: no identifier of the batch decodes to 20 bytes.
BatchNoHashes(b) ==
    /\ batch_pc[b] = "spawned"
    /\ decode_hashes(batch_hashes[b]) = << >>
    /\ batch_results' = [batch_results EXCEPT ![b] =
                            undecoded_results(batch_indices[b], data_lines)]
    /\ batch_pc' = [batch_pc EXCEPT ![b] = "aggregated"]
    /\ UNCHANGED other_vars
    /\ UNCHANGED <<main_vars, shared_vars, batch_indices, batch_hashes, hash_bytes,
                   all_results, tracker_vars>>

\* Lines 208-225 and 173-192: one tracker thread is spawned per tracker.
BatchFanOut(b) ==
    /\ batch_pc[b] = "spawned"
    /\ decode_hashes(batch_hashes[b]) # << >>
    /\ hash_bytes' = [hash_bytes EXCEPT ![b] = decode_hashes(batch_hashes[b])]
    /\ tracker_pc' = [tracker_pc EXCEPT ![b] = [t \in TRACKERS |-> "spawned"]]
    /\ batch_pc' = [batch_pc EXCEPT ![b] = "scraping"]
    /\ UNCHANGED other_vars
    /\ UNCHANGED <<main_vars, shared_vars, batch_indices, batch_hashes, all_results,
                   batch_results, sessions>>

\* The tracker thread calling scrape_udp_tracker a second time at once.
SessionStart_twice(b, t) ==
    /\ tracker_pc[b][t] = "spawned"
    /\ tracker_pc' = [tracker_pc EXCEPT ![b][t] = "running"]
    /\ sessions' = [sessions EXCEPT ![b][t] = @ + 2]
    /\ UNCHANGED other_vars
    /\ UNCHANGED <<main_vars, shared_vars, batch_vars>>

\* Lines 182-183: the tracker thread calls scrape_udp_tracker.
SessionStart(b, t) ==
    /\ tracker_pc[b][t] = "spawned"
    /\ tracker_pc' = [tracker_pc EXCEPT ![b][t] = "running"]
    /\ sessions' = [sessions EXCEPT ![b][t] = @ + 1]
    /\ UNCHANGED other_vars
    /\ UNCHANGED <<main_vars, shared_vars, batch_vars>>

\* The tracker thread of a session that failed emptying the shared list.
SessionReturn_failure_clears(b, t) ==
    /\ tracker_pc[b][t] = "running"
    /\ \E tracker_results \in SessionOutcomes(hash_bytes[b]) :
             all_results' = [all_results EXCEPT ![b] =
                 IF tracker_results.ok /\ DOMAIN tracker_results.value # {}
                 THEN Append(@, tracker_results.value)
                 ELSE << >>]
    /\ tracker_pc' = [tracker_pc EXCEPT ![b][t] = "done"]
    /\ UNCHANGED other_vars
    /\ UNCHANGED <<main_vars, shared_vars, batch_pc, batch_indices, batch_hashes,
                   hash_bytes, batch_results, sessions>>

\* The sessions of a batch called one after the other: a session returns
\* after the sessions of the trackers before it.
SessionReturn_in_turn(b, t) ==
    /\ tracker_pc[b][t] = "running"
    /\ \A t2 \in TRACKERS : t2 < t => tracker_pc[b][t2] = "done"
    /\ \E tracker_results \in SessionOutcomes(hash_bytes[b]) :
             all_results' = [all_results EXCEPT ![b] =
                 IF tracker_results.ok /\ DOMAIN tracker_results.value # {}
                 THEN Append(@, tracker_results.value)
                 ELSE @]
    /\ tracker_pc' = [tracker_pc EXCEPT ![b][t] = "done"]
    /\ UNCHANGED other_vars
    /\ UNCHANGED <<main_vars, shared_vars, batch_pc, batch_indices, batch_hashes,
                   hash_bytes, batch_results, sessions>>

\* Lines 77-170 and 182-188: the session returns or unwinds; a result that
\* is not empty is pushed to the shared list of the batch.
SessionReturn(b, t) ==
    /\ tracker_pc[b][t] = "running"
    /\ \E tracker_results \in SessionOutcomes(hash_bytes[b]) :
             all_results' = [all_results EXCEPT ![b] =
                 IF tracker_results.ok /\ DOMAIN tracker_results.value # {}
                 THEN Append(@, tracker_results.value)
                 ELSE @]
    /\ tracker_pc' = [tracker_pc EXCEPT ![b][t] = "done"]
    /\ UNCHANGED other_vars
    /\ UNCHANGED <<main_vars, shared_vars, batch_pc, batch_indices, batch_hashes,
                   hash_bytes, batch_results, sessions>>

\* Lines 195-200 and 228-266: all tracker threads are joined and the results
\* are consolidated.
BatchConsolidate(b) ==
    /\ batch_pc[b] = "scraping"
    /\ \A t \in TRACKERS : tracker_pc[b][t] = "done"
    /\ batch_results' = [batch_results EXCEPT ![b] =
           consolidate_batch(batch_indices[b], batch_hashes[b], data_lines,
                             all_results[b], 1)]
    /\ batch_pc' = [batch_pc EXCEPT ![b] = "aggregated"]
    /\ UNCHANGED other_vars
    /\ UNCHANGED <<main_vars, shared_vars, batch_indices, batch_hashes, hash_bytes,
                   all_results, tracker_vars>>

\* The batch thread taking the lock of updated_records without waiting for
\* its holder.
BatchLockRecords_no_wait(b) ==
    /\ batch_pc[b] = "aggregated"
    /\ records_lock' = records_lock \cup {b}
    /\ batch_pc' = [batch_pc EXCEPT ![b] = "locked_records"]
    /\ UNCHANGED other_vars
    /\ UNCHANGED <<main_vars, updated_records, stats, stats_lock, batch_indices,
                   batch_hashes, hash_bytes, all_results, batch_results, tracker_vars>>

\* Line 359: updated_records.lock(), once the Mutex is free.
BatchLockRecords(b) ==
    /\ batch_pc[b] = "aggregated"
    /\ records_lock = {}
    /\ records_lock' = records_lock \cup {b}
    /\ batch_pc' = [batch_pc EXCEPT ![b] = "locked_records"]
    /\ UNCHANGED other_vars
    /\ UNCHANGED <<main_vars, updated_records, stats, stats_lock, batch_indices,
                   batch_hashes, hash_bytes, all_results, batch_results, tracker_vars>>

\* Line 360: stats.lock(), once the Mutex is free.
BatchLockStats(b) ==
    /\ batch_pc[b] = "locked_records"
    /\ stats_lock = {}
    /\ stats_lock' = stats_lock \cup {b}
    /\ batch_pc' = [batch_pc EXCEPT ![b] = "locked"]
    /\ UNCHANGED other_vars
    /\ UNCHANGED <<main_vars, updated_records, stats, records_lock, batch_indices,
                   batch_hashes, hash_bytes, all_results, batch_results, tracker_vars>>

\* The batch thread ending without dropping the guard of updated_records.
BatchMerge_keeps_records_lock(b) ==
    /\ batch_pc[b] = "locked"
    /\ LET m == merge_results(batch_results[b], updated_records, stats)
       IN  /\ updated_records' = m.records
           /\ stats' = m.stats
    /\ records_lock' = records_lock
    /\ stats_lock' = stats_lock \ {b}
    /\ batch_pc' = [batch_pc EXCEPT ![b] = "finished"]
    /\ all_results' = [all_results EXCEPT ![b] = << >>]
    /\ batch_results' = [batch_results EXCEPT ![b] = << >>]
    /\ UNCHANGED other_vars
    /\ UNCHANGED <<main_vars, batch_indices, batch_hashes, hash_bytes, tracker_pc,
                   sessions>>

\* Lines 362-372: under both locks the batch result is merged into the shared
\* map and counters; the thread ends, its guards and its locals are dropped.
BatchMerge(b) ==
    /\ batch_pc[b] = "locked"
    /\ LET m == merge_results(batch_results[b], updated_records, stats)
       IN  /\ updated_records' = m.records
           /\ stats' = m.stats
    /\ records_lock' = records_lock \ {b}
    /\ stats_lock' = stats_lock \ {b}
    /\ batch_pc' = [batch_pc EXCEPT ![b] = "finished"]
    /\ all_results' = [all_results EXCEPT ![b] = << >>]
    /\ batch_results' = [batch_results EXCEPT ![b] = << >>]
    /\ UNCHANGED other_vars
    /\ UNCHANGED <<main_vars, batch_indices, batch_hashes, hash_bytes, tracker_pc,
                   sessions>>

Next ==
    \/ MainSpawnBatch
    \/ MainSkipBatch
    \/ MainEndChunk
    \/ MainJoin
    \/ MainReport
    \/ MainWrite
    \/ \E b \in BatchIds : BatchNoHashes(b)
    \/ \E b \in BatchIds : BatchFanOut(b)
    \/ \E b \in BatchIds, t \in TRACKERS : SessionStart(b, t)
    \/ \E b \in BatchIds, t \in TRACKERS : SessionReturn(b, t)
    \/ \E b \in BatchIds : BatchConsolidate(b)
    \/ \E b \in BatchIds : BatchLockRecords(b)
    \/ \E b \in BatchIds : BatchLockStats(b)
    \/ \E b \in BatchIds : BatchMerge(b)

Spec == Init /\ [][Next]_vars

\* The scheduler runs a thread that can take a step: as long as some thread
\* of the run can take a step, one of them eventually does.  A session that
\* is running always returns, at the latest when its receive times out
\* (line 85).
Fairness == WF_vars(Next)

\* The files of the runs followed to their end: the longest files, which
\* take two chunks, and every file of one line.
FairFiles == [0 .. MaxLines -> PlainKinds] \cup [0 .. 0 -> LineKinds]

FairInit ==
    /\ RunInit(FairFiles)
    /\ session = NoSession
    /\ csv = NoCsv
    /\ magnet = NoMagnet

FairSpec == FairInit /\ [][Next]_vars /\ Fairness


(***************************************************************************)
(* One call of scrape_udp_tracker, datagram by datagram.  A datagram is    *)
(* the sequence of its bytes; an identifier of the argument `infohashes`   *)
(* is the 20 bytes its value is written with.                              *)
(***************************************************************************)
\* Largest number of identifiers given to the call that is followed.
MaxHashes == 2

\* u32::to_be_bytes, u32::from_be_bytes
u32_to_be_bytes(v) ==
    <<(v \div 16777216) % 256, (v \div 65536) % 256, (v \div 256) % 256, v % 256>>
u32_from_be_bytes(b) == (((((b[1] * 256) + b[2]) * 256) + b[3]) * 256) + b[4]

\* A u64 is kept as its two 32-bit halves.
u64_to_be_bytes(x) == u32_to_be_bytes(x.hi) \o u32_to_be_bytes(x.lo)
u64_from_be_bytes(b) ==
    [hi |-> u32_from_be_bytes(SubSeq(b, 1, 4)), lo |-> u32_from_be_bytes(SubSeq(b, 5, 8))]

\* Line 95: 0x41727101980u64, that is 0x00000417 and 0x27101980.
Magic == [hi |-> 1047, lo |-> 655366528]

\* The bytes buf[from .. to - 1] of a buffer, indices counted from 0.
slice(buf, from, to) == SubSeq(buf, from + 1, to)

\* The Vec<u8> of an identifier.
raw(hash) == [i \in 1 .. hash.n |-> hash.val]

\* Lines 94-97: the connect request.
connect_req(transaction_id) ==
    u64_to_be_bytes(Magic) \o u32_to_be_bytes(0) \o u32_to_be_bytes(transaction_id)

\* Lines 126-129: the identifiers infohashes[from .. chunk_size], appended.
RECURSIVE extend_hashes(_, _, _)
extend_hashes(infohashes, from, chunk_size) ==
    IF from > chunk_size
    THEN << >>
    ELSE raw(infohashes[from]) \o extend_hashes(infohashes, from + 1, chunk_size)

\* The scrape request with the action of the connect request.
scrape_req_action_0(connection_id, scrape_trans_id, infohashes) ==
    u64_to_be_bytes(connection_id) \o u32_to_be_bytes(0)
        \o u32_to_be_bytes(scrape_trans_id)
        \o extend_hashes(infohashes, 1, Min(ProtocolCap, Len(infohashes)))

\* Lines 120-129: the scrape request.
scrape_req(connection_id, scrape_trans_id, infohashes) ==
    u64_to_be_bytes(connection_id) \o u32_to_be_bytes(2)
        \o u32_to_be_bytes(scrape_trans_id)
        \o extend_hashes(infohashes, 1, Min(ProtocolCap, Len(infohashes)))

\* UdpSocket::recv into a buffer of `cap` bytes: the bytes of the datagram
\* that fit.
recv(datagram, cap) == SubSeq(datagram, 1, recv_len(Len(datagram), cap))

\* The decoding loop giving the records to the identifiers from the last
\* to the first.
RECURSIVE decode_bytes_from_the_last(_, _, _, _, _, _)
decode_bytes_from_the_last(infohashes, chunk_size, response, n, j, st) ==
    IF j > chunk_size
    THEN st.results
    ELSE IF st.offset + 12 <= n
         THEN decode_bytes_from_the_last(infohashes, chunk_size, response, n, j + 1,
                  [offset |-> st.offset + 12,
                   results |-> Insert(st.results,
                       to_lowercase(hex_encode(infohashes[(chunk_size + 1) - j])),
                       [seeders |-> u32_from_be_bytes(slice(response, st.offset, st.offset + 4)),
                        leechers |-> u32_from_be_bytes(slice(response, st.offset + 8,
                                                             st.offset + 12))])])
         ELSE decode_bytes_from_the_last(infohashes, chunk_size, response, n, j + 1, st)

\* The decoding loop reading the leechers from bytes 4 .. 7 of a record, the
\* completed count.
RECURSIVE decode_bytes_completed_as_leechers(_, _, _, _, _, _)
decode_bytes_completed_as_leechers(infohashes, chunk_size, response, n, j, st) ==
    IF j > chunk_size
    THEN st.results
    ELSE IF st.offset + 12 <= n
         THEN decode_bytes_completed_as_leechers(infohashes, chunk_size, response, n, j + 1,
                  [offset |-> st.offset + 12,
                   results |-> Insert(st.results,
                       to_lowercase(hex_encode(infohashes[j])),
                       [seeders |-> u32_from_be_bytes(slice(response, st.offset, st.offset + 4)),
                        leechers |-> u32_from_be_bytes(slice(response, st.offset + 4,
                                                             st.offset + 8))])])
         ELSE decode_bytes_completed_as_leechers(infohashes, chunk_size, response, n, j + 1, st)

\* Lines 143-164: the positional decoding loop, on the bytes received.
RECURSIVE decode_bytes(_, _, _, _, _, _)
decode_bytes(infohashes, chunk_size, response, n, j, st) ==
    IF j > chunk_size
    THEN st.results
    ELSE IF st.offset + 12 <= n
         THEN decode_bytes(infohashes, chunk_size, response, n, j + 1,
                  [offset |-> st.offset + 12,
                   results |-> Insert(st.results,
                       to_lowercase(hex_encode(infohashes[j])),
                       [seeders |-> u32_from_be_bytes(slice(response, st.offset, st.offset + 4)),
                        leechers |-> u32_from_be_bytes(slice(response, st.offset + 8,
                                                             st.offset + 12))])])
         ELSE decode_bytes(infohashes, chunk_size, response, n, j + 1, st)

\* Lines 137-166: what the call returns after receiving n bytes in response.
decode_response(infohashes, scrape_trans_id, response, n) ==
    IF n >= 8
    THEN IF u32_from_be_bytes(slice(response, 0, 4)) = 2
            /\ u32_from_be_bytes(slice(response, 4, 8)) = scrape_trans_id
         THEN decode_bytes(infohashes, Min(ProtocolCap, Len(infohashes)), response, n, 1,
                           [offset |-> 8, results |-> EmptyMap])
         ELSE EmptyMap
    ELSE EmptyMap

\* The arguments of the call: up to MaxHashes identifiers of 20 bytes, the
\* same identifier twice included.
SessionInputs ==
    UNION { [1 .. n -> { [n |-> HashBytes, val |-> v] : v \in {1, 2} }] :
              n \in 1 .. MaxHashes }

\* The values rand::random() returns and the connection ids trackers give.
TransIds == {1, 2}
ConnIds == { [hi |-> 0, lo |-> 5], [hi |-> 3, lo |-> 0] }

\* The datagrams that can arrive after the connect request with the
\* transaction id t: the connect response, the same followed by 4 more
\* bytes, cut to 8 bytes, with another action or transaction id, and the
\* empty datagram.
ConnectResponses(t) ==
    UNION { { u32_to_be_bytes(0) \o u32_to_be_bytes(t) \o u64_to_be_bytes(c),
              u32_to_be_bytes(0) \o u32_to_be_bytes(t) \o u64_to_be_bytes(c)
                  \o u32_to_be_bytes(0),
              u32_to_be_bytes(0) \o u32_to_be_bytes(t),
              u32_to_be_bytes(3) \o u32_to_be_bytes(t) \o u64_to_be_bytes(c),
              u32_to_be_bytes(0) \o u32_to_be_bytes(t + 1) \o u64_to_be_bytes(c),
              << >> } : c \in ConnIds }

\* The 12 bytes of one record of a scrape response: seeders, completed,
\* leechers.
ScrapeRecords == [seeders : Counts, completed : {MaxCount + 1}, leechers : Counts]

RECURSIVE record_bytes(_)
record_bytes(recs) ==
    IF recs = << >>
    THEN << >>
    ELSE u32_to_be_bytes(Head(recs).seeders) \o u32_to_be_bytes(Head(recs).completed)
             \o u32_to_be_bytes(Head(recs).leechers) \o record_bytes(Tail(recs))

\* The datagrams that can arrive after the scrape request for k identifiers
\* with the transaction id t: the scrape response with k records, whole or
\* cut short, and the same with another action or transaction id.
ScrapeResponses(k, t) ==
    UNION { { SubSeq(u32_to_be_bytes(2) \o u32_to_be_bytes(t) \o record_bytes(recs), 1, len) :
                len \in {0, 4, 8} \cup { 8 + (12 * r) + x : r \in 0 .. (k - 1), x \in {11, 12} } }
            \cup { u32_to_be_bytes(3) \o u32_to_be_bytes(t) \o record_bytes(recs),
                   u32_to_be_bytes(2) \o u32_to_be_bytes(t + 1) \o record_bytes(recs) } :
            recs \in [1 .. k -> ScrapeRecords] }

\* The call returns `results` (an early `return results` or line 169).
Return(results) == session' = [session EXCEPT !.pc = "returned", !.results = results]

SessionInit ==
    /\ RunInit({<< >>})
    /\ csv = NoCsv
    /\ magnet = NoMagnet
    /\ \E infohashes \in SessionInputs :
         session = [pc |-> "bind", infohashes |-> infohashes, sent |-> << >>,
                    rcvd |-> << >>, transaction_id |-> 0,
                    connection_id |-> [hi |-> 0, lo |-> 0], scrape_trans_id |-> 0,
                    results |-> EmptyMap]

\* Lines 80-83: UdpSocket::bind.
Bind ==
    /\ session.pc = "bind"
    /\ \E ok \in BOOLEAN :
         IF ok THEN session' = [session EXCEPT !.pc = "set_read_timeout"]
         ELSE Return(session.results)
    /\ UNCHANGED <<run_vars, csv, magnet>>

\* Lines 85-87: set_read_timeout.
SetReadTimeout ==
    /\ session.pc = "set_read_timeout"
    /\ \E ok \in BOOLEAN :
         IF ok THEN session' = [session EXCEPT !.pc = "connect"]
         ELSE Return(session.results)
    /\ UNCHANGED <<run_vars, csv, magnet>>

\* Lines 89-91: socket.connect(tracker), with the address resolution.
Connect ==
    /\ session.pc = "connect"
    /\ \E ok \in BOOLEAN :
         IF ok THEN session' = [session EXCEPT !.pc = "send_connect"]
         ELSE Return(session.results)
    /\ UNCHANGED <<run_vars, csv, magnet>>

\* Lines 94-102: the connect request is built and sent.
SendConnect ==
    /\ session.pc = "send_connect"
    /\ \E transaction_id \in TransIds, ok \in BOOLEAN :
         IF ok
         THEN session' = [session EXCEPT !.pc = "recv_connect",
                              !.transaction_id = transaction_id,
                              !.sent = Append(@, connect_req(transaction_id))]
         ELSE session' = [session EXCEPT !.pc = "returned",
                              !.transaction_id = transaction_id]
    /\ UNCHANGED <<run_vars, csv, magnet>>

\* Lines 104-117: a datagram arrives and is received into the 16-byte buffer.
RecvConnect ==
    /\ session.pc = "recv_connect"
    /\ \E datagram \in ConnectResponses(session.transaction_id) :
         LET buf == recv(datagram, ConnectBuf)
         IN  IF Len(buf) = 16
             THEN IF u32_from_be_bytes(slice(buf, 0, 4)) # 0
                     \/ u32_from_be_bytes(slice(buf, 4, 8)) # session.transaction_id
                  THEN session' = [session EXCEPT !.pc = "returned",
                                       !.rcvd = Append(@, datagram)]
                  ELSE session' = [session EXCEPT !.pc = "send_scrape",
                                       !.rcvd = Append(@, datagram),
                                       !.connection_id = u64_from_be_bytes(slice(buf, 8, 16))]
             ELSE session' = [session EXCEPT !.pc = "returned",
                                  !.rcvd = Append(@, datagram)]
    /\ UNCHANGED <<run_vars, csv, magnet>>

\* Line 116: recv returns an error: the timeout of line 85 expired, or the
\* system refused a datagram longer than the buffer.
RecvConnectError ==
    /\ session.pc = "recv_connect"
    /\ Return(session.results)
    /\ UNCHANGED <<run_vars, csv, magnet>>

\* Lines 120-133: the scrape request is built and sent.
SendScrape ==
    /\ session.pc = "send_scrape"
    /\ \E scrape_trans_id \in TransIds, ok \in BOOLEAN :
         IF ok
         THEN session' = [session EXCEPT !.pc = "recv_scrape",
                              !.scrape_trans_id = scrape_trans_id,
                              !.sent = Append(@, scrape_req(session.connection_id,
                                                  scrape_trans_id, session.infohashes))]
         ELSE session' = [session EXCEPT !.pc = "returned",
                              !.scrape_trans_id = scrape_trans_id]
    /\ UNCHANGED <<run_vars, csv, magnet>>

\* Lines 136-169: a datagram arrives, is received into the 2048-byte buffer
\* and decoded.
RecvScrape ==
    /\ session.pc = "recv_scrape"
    /\ \E datagram \in ScrapeResponses(Min(ProtocolCap, Len(session.infohashes)),
                                       session.scrape_trans_id) :
         LET response == recv(datagram, ResponseBuf)
         IN  session' = [session EXCEPT !.pc = "returned",
                             !.rcvd = Append(@, datagram),
                             !.results = decode_response(session.infohashes,
                                             session.scrape_trans_id, response,
                                             Len(response))]
    /\ UNCHANGED <<run_vars, csv, magnet>>

\* Line 137: recv returns an error (the timeout expired).
RecvScrapeError ==
    /\ session.pc = "recv_scrape"
    /\ Return(session.results)
    /\ UNCHANGED <<run_vars, csv, magnet>>

SessionNext ==
    \/ Bind
    \/ SetReadTimeout
    \/ Connect
    \/ SendConnect
    \/ RecvConnect
    \/ RecvConnectError
    \/ SendScrape
    \/ RecvScrape
    \/ RecvScrapeError

SessionSpec == SessionInit /\ [][SessionNext]_vars


(***************************************************************************)
(* csv_writer.rs: the catalogue file and append_torrents_to_csv.  A string *)
(* is the sequence of the parts that its ';' separate, a line of the file  *)
(* is the string written by writeln.                                       *)
(***************************************************************************)
\* Largest number of records given to one call, of calls, and of data lines
\* of the catalogue before the first call.
MaxRecords == 2
MaxCalls == 2
MaxInitial == 1

\* The infohash strings of the records: two infohashes, and a string with a
\* ';' in it.
InfohashStrings == { <<"a">>, <<"b">>, <<"a", "x">> }

\* Line 126: the header written by create_csv_if_not_exists.
Header == <<"infohash", "name", "size_bytes", "created_unix", "seeders", "leechers",
            "completed", "scraped_date">>

\* Lines 20-32: TorrentCsvRecord::to_csv_line; the name has no ';' left.
to_csv_line(record) ==
    record.infohash \o <<"name", "size_bytes", "created_unix", "seeders", "leechers",
                         "completed", "scraped_date">>

\* Line 82: line.split(';').next()
first_field(line) == <<line[1]>>

\* Lines 71-91: read_existing_infohashes; the first line is skipped.
read_existing_infohashes(file) ==
    { first_field(file[i]) : i \in 2 .. Len(file) }

\* Lines 101-103: the records whose infohash is not in `existing`.
RECURSIVE new_records(_, _)
new_records(records, existing) ==
    IF records = << >>
    THEN << >>
    ELSE (IF Head(records).infohash \in existing THEN << >> ELSE <<Head(records)>>)
         \o new_records(Tail(records), existing)

\* Lines 116-118: the lines written for the first n of the records.
RECURSIVE written(_, _)
written(records, n) ==
    IF n = 0 \/ records = << >>
    THEN << >>
    ELSE <<to_csv_line(Head(records))>> \o written(Tail(records), n - 1)

\* The arguments of a call.
RecordSeqs ==
    UNION { [1 .. n -> [infohash : InfohashStrings]] : n \in 0 .. MaxRecords }

\* The catalogues before the first call: the header and data lines with
\* pairwise distinct infohashes (first fields).
InitialFiles ==
    { <<Header>> \o lines :
        lines \in { q \in UNION { [1 .. n -> { to_csv_line(r) : r \in [infohash : InfohashStrings] }] :
                                    n \in 0 .. MaxInitial } :
                      \A i, j \in DOMAIN q : i # j => first_field(q[i]) # first_field(q[j]) } }

CsvInit ==
    /\ RunInit({<< >>})
    /\ session = NoSession
    /\ magnet = NoMagnet
    /\ \E file \in InitialFiles :
         csv = [file |-> file, calls |-> 0, records |-> << >>,
                result |-> [ok |-> TRUE, count |-> 0]]

\* Lines 93-121: one call of append_torrents_to_csv that returns Ok.
AppendTorrents ==
    /\ csv.calls < MaxCalls
    /\ \E records \in RecordSeqs :
         LET existing == read_existing_infohashes(csv.file)
             new == new_records(records, existing)
         IN  csv' = [file |-> csv.file \o written(new, Len(new)),
                     calls |-> csv.calls + 1,
                     records |-> records,
                     result |-> [ok |-> TRUE, count |-> Len(new)]]
    /\ UNCHANGED <<run_vars, session, magnet>>

\* Lines 110-118: the call returns the error of OpenOptions::open or of a
\* writeln, after the lines written before it.
AppendTorrentsFails ==
    /\ csv.calls < MaxCalls
    /\ \E records \in RecordSeqs :
         LET existing == read_existing_infohashes(csv.file)
             new == new_records(records, existing)
         IN  /\ new # << >>
             /\ \E n \in 0 .. (Len(new) - 1) :
                  csv' = [file |-> csv.file \o written(new, n),
                          calls |-> csv.calls + 1,
                          records |-> records,
                          result |-> [ok |-> FALSE]]
    /\ UNCHANGED <<run_vars, session, magnet>>

CsvNext ==
    \/ AppendTorrents
    \/ AppendTorrentsFails

CsvSpec == CsvInit /\ [][CsvNext]_vars


(***************************************************************************)
(* csv_writer.rs: extract_infohash_from_magnet.  A string is the sequence  *)
(* of its characters.                                                      *)
(***************************************************************************)
\* Largest number of pieces a magnet string is made of.
MaxPieces == 3

\* Line 133: "xt=urn:btih:"
Marker == <<"x", "t", "=", "u", "r", "n", ":", "b", "t", "i", "h", ":">>

\* The pieces of the magnet strings: the marker, the separator, an upper
\* case and a lower case character, and a beginning of the marker.
Pieces == { Marker, <<"&">>, <<"A">>, <<"b">>, <<"x", "t", "=">> }

RECURSIVE concat(_)
concat(pieces) ==
    IF pieces = << >> THEN << >> ELSE Head(pieces) \o concat(Tail(pieces))

Magnets == { concat(q) : q \in UNION { [1 .. n -> Pieces] : n \in 0 .. MaxPieces } }

\* str::split: the start of the first match of pat in s at or after `from`,
\* 0 when there is none.
find(s, pat, from) ==
    LET starts == { i \in from .. (Len(s) - Len(pat) + 1) :
                        SubSeq(s, i, i + Len(pat) - 1) = pat }
    IN  IF starts = {} THEN 0 ELSE CHOOSE i \in starts : \A k \in starts : i <= k

\* Lines 133-134: magnet.split("xt=urn:btih:").nth(1), the text between the
\* first match of the pattern and the next match or the end.
split_nth_1(s, pat) ==
    LET first == find(s, pat, 1)
        rest == SubSeq(s, first + Len(pat), Len(s))
        second == find(rest, pat, 1)
    IN  IF first = 0 THEN [some |-> FALSE]
        ELSE [some |-> TRUE,
              value |-> IF second = 0 THEN rest ELSE SubSeq(rest, 1, second - 1)]

\* Lines 135-136: .split('&').next(), the text before the first '&'.
split_next(s, pat) ==
    LET first == find(s, pat, 1)
    IN  IF first = 0 THEN s ELSE SubSeq(s, 1, first - 1)

\* Line 137: str::to_lowercase over the characters of the magnet strings.
chars_to_lowercase(s) == [i \in DOMAIN s |-> IF s[i] = "A" THEN "a" ELSE s[i]]

\* Lines 131-138.
extract_infohash_from_magnet(s) ==
    LET piece == split_nth_1(s, Marker)
    IN  IF piece.some
        THEN [some |-> TRUE, value |-> chars_to_lowercase(split_next(piece.value, <<"&">>))]
        ELSE [some |-> FALSE]

MagnetInit ==
    /\ RunInit({<< >>})
    /\ session = NoSession
    /\ csv = NoCsv
    /\ \E s \in Magnets : magnet = [pc |-> "called", magnet |-> s]

\* Lines 131-138: the call returns.
ExtractInfohash ==
    /\ magnet.pc = "called"
    /\ magnet' = [pc |-> "returned", magnet |-> magnet.magnet,
                  result |-> extract_infohash_from_magnet(magnet.magnet)]
    /\ UNCHANGED <<run_vars, session, csv>>

MagnetNext == ExtractInfohash

MagnetSpec == MagnetInit /\ [][MagnetNext]_vars


(***************************************************************************)
(* Observations and verdicts, as the claims speak of them.                 *)
(***************************************************************************)
\* An identifier is well formed when it is 40 hexadecimal characters.
WellFormed(id) == id.len = HexLen /\ id.hex

\* A key of a tracker result map names the identifier `id`: the same 20
\* bytes, whatever the case of the letters.
SameId(key, id) == key.hex /\ id.hex /\ key.len = id.len /\ key.val = id.val

\* The observations of the identifier `id` in a list of tracker result maps.
ObservationsIn(results, id) ==
    { results[k][key] : <<k, key>> \in
        { p \in (DOMAIN results) \X (UNION { DOMAIN results[k] : k \in DOMAIN results }) :
            p[2] \in DOMAIN results[p[1]] /\ SameId(p[2], id) } }

Observations(b, id) == ObservationsIn(all_results[b], id)

Positive(o) == o.seeders > 0 \/ o.leechers > 0

SetMax(S) == CHOOSE m \in S : \A x \in S : x <= m

\* The positions of the batch b and the places of its result that speak of
\* the line idx.
Positions(b) == 1 .. Len(batch_indices[b])
Items(b, idx) == { k \in DOMAIN batch_results[b] : batch_results[b][k].idx = idx }

\* process_batch has returned in the batch thread b and its result is not
\* merged yet.
Returned(b) == batch_pc[b] = "aggregated"

\* The three verdicts of the line at position i of the batch b, read from
\* the result of process_batch.
IsAlive(b, i, s, l) ==
    /\ Cardinality(Items(b, batch_indices[b][i])) = 1
    /\ \A k \in Items(b, batch_indices[b][i]) :
         /\ batch_results[b][k].record.some
         /\ batch_results[b][k].record.rec.seeders = s
         /\ batch_results[b][k].record.rec.leechers = l
         /\ batch_results[b][k].record.rec.scraped_date = Now

IsFailed(b, i) ==
    /\ Cardinality(Items(b, batch_indices[b][i])) = 1
    /\ \A k \in Items(b, batch_indices[b][i]) :
         /\ batch_results[b][k].record.some
         /\ to_line(batch_results[b][k].record.rec).seeders
              = data_lines[batch_indices[b][i]].seeders
         /\ to_line(batch_results[b][k].record.rec).leechers
              = data_lines[batch_indices[b][i]].leechers
         /\ to_line(batch_results[b][k].record.rec).scraped_date
              = data_lines[batch_indices[b][i]].scraped_date

IsDead(b, i) ==
    /\ Cardinality(Items(b, batch_indices[b][i])) = 1
    /\ \A k \in Items(b, batch_indices[b][i]) : ~batch_results[b][k].record.some

\* Prefixes of the result list: the observation sets with fewer responses.
Prefixes(results) == { SubSeq(results, 1, n) : n \in 0 .. Len(results) }

\* C1: an identifier for which some tracker reports seeders > 0 or
\* leechers > 0 is classified Alive with the maximum seeders and the maximum
\* leechers over the trackers that answered for it, and neither maximum
\* decreases when a further tracker response is added.
C1_AliveWithMaxima ==
    \A b \in BatchIds :
        /\ Returned(b) =>
             \A i \in Positions(b) :
                 LET obs == Observations(b, batch_hashes[b][i])
                 IN  (\E o \in obs : Positive(o)) =>
                         IsAlive(b, i, SetMax({ o.seeders : o \in obs }),
                                       SetMax({ o.leechers : o \in obs }))
        /\ \A i \in Positions(b) : \A p \in Prefixes(all_results[b]) :
             LET key == to_lowercase(batch_hashes[b][i])
                 few == consolidate(p, key, 1, NoAnswer)
                 more == consolidate(all_results[b], key, 1, NoAnswer)
             IN  few.max_seeders <= more.max_seeders
                 /\ few.max_leechers <= more.max_leechers

\* C1 holds for the lines that parse as a record (at least 8 fields).
C1_AliveWithMaximaParsed ==
    \A b \in BatchIds :
        Returned(b) =>
             \A i \in Positions(b) :
                 LET obs == Observations(b, batch_hashes[b][i])
                 IN  ((\E o \in obs : Positive(o))
                        /\ from_line(data_lines[batch_indices[b][i]]).some) =>
                         IsAlive(b, i, SetMax({ o.seeders : o \in obs }),
                                       SetMax({ o.leechers : o \in obs }))

\* C2: an identifier that no tracker result map contains has the verdict
\* Failed: it is not Dead and its counts are not changed.
C2_NoAnswerIsFailed ==
    \A b \in BatchIds :
        Returned(b) =>
            \A i \in Positions(b) :
                Observations(b, batch_hashes[b][i]) = {} => IsFailed(b, i)

\* C3: an identifier for which at least one tracker answered and every
\* tracker that answered reported seeders = 0 and leechers = 0 is Dead:
\* process_batch emits (line index, None) for it.
C3_AllZeroIsDead ==
    \A b \in BatchIds :
        Returned(b) =>
            \A i \in Positions(b) :
                LET obs == Observations(b, batch_hashes[b][i])
                IN  (obs # {} /\ \A o \in obs : ~Positive(o)) => IsDead(b, i)

C3_Witness ==
    \E b \in BatchIds :
        /\ Returned(b)
        /\ \E i \in Positions(b) :
             LET obs == Observations(b, batch_hashes[b][i])
             IN  obs # {} /\ (\A o \in obs : ~Positive(o)) /\ IsDead(b, i)
                 /\ Len(all_results[b]) = Cardinality(TRACKERS)

\* C4: a None record in the result of process_batch (the Dead outcome) is
\* given only to an identifier for which at least one tracker responded, on
\* every path of process_batch.
C4_DeadOnlyIfAnswered ==
    \A b \in BatchIds :
        Returned(b) =>
            \A i \in Positions(b) :
                (\E k \in Items(b, batch_indices[b][i]) : ~batch_results[b][k].record.some)
                    => Observations(b, batch_hashes[b][i]) # {}


\* The orders in which the same result maps can have been pushed.
PushOrders(results) ==
    { [i \in 1 .. Len(results) |-> results[f[i]]] :
        f \in { g \in [1 .. Len(results) -> 1 .. Len(results)] :
                  \A x, y \in 1 .. Len(results) : g[x] = g[y] => x = y } }

\* C5: for the result maps the tracker threads of a batch pushed, the result
\* of process_batch (verdict, seeders and leechers of every identifier) is
\* the same for every order in which they can have been pushed.
C5_OrderIndependent ==
    \A b \in BatchIds :
        (Returned(b) /\ hash_bytes[b] # << >>) =>
            \A p \in PushOrders(all_results[b]) :
                consolidate_batch(batch_indices[b], batch_hashes[b], data_lines, p, 1)
                    = batch_results[b]

C5_Witness ==
    \E b \in BatchIds :
        /\ Returned(b)
        /\ Len(all_results[b]) = 2
        /\ all_results[b][1] # all_results[b][2]
        /\ \E i \in Positions(b) : IsAlive(b, i, MaxCount, MaxCount)

\* The batches main has built so far.
Built == { b \in BatchIds : batch_pc[b] # "none" }
IndexSet(b) == { batch_indices[b][i] : i \in Positions(b) }

\* C6: the batches built in main are pairwise disjoint in line indices, hold
\* the identifiers in input order within and across batches, have at most
\* BATCH_SIZE and at most 74 identifiers each, and together contain exactly
\* the well-formed identifiers of the input.
C6_BatchesPartitionWellFormed ==
    /\ \A b1, b2 \in Built : b1 # b2 => IndexSet(b1) \cap IndexSet(b2) = {}
    /\ \A b \in Built :
         /\ Len(batch_hashes[b]) = Len(batch_indices[b])
         /\ Len(batch_hashes[b]) <= BATCH_SIZE
         /\ Len(batch_hashes[b]) <= ProtocolCap
         /\ \A i, j \in Positions(b) : i < j => batch_indices[b][i] < batch_indices[b][j]
         /\ \A i \in Positions(b) :
              batch_hashes[b][i] = data_lines[batch_indices[b][i]].infohash
    /\ \A b1, b2 \in Built :
         b1 < b2 => \A x \in IndexSet(b1), y \in IndexSet(b2) : x < y
    /\ main_pc \in {"write", "done"} =>
         UNION { IndexSet(b) : b \in Built }
             = { idx \in DOMAIN data_lines : WellFormed(data_lines[idx].infohash) }

\* What holds of the batches built in main: they contain exactly the
\* identifiers of 40 characters, hexadecimal or not.
C6_BatchesPartitionLength40 ==
    /\ \A b1, b2 \in Built : b1 # b2 => IndexSet(b1) \cap IndexSet(b2) = {}
    /\ \A b \in Built :
         /\ Len(batch_hashes[b]) = Len(batch_indices[b])
         /\ Len(batch_hashes[b]) <= BATCH_SIZE
         /\ Len(batch_hashes[b]) <= ProtocolCap
         /\ \A i, j \in Positions(b) : i < j => batch_indices[b][i] < batch_indices[b][j]
    /\ main_pc \in {"write", "done"} =>
         UNION { IndexSet(b) : b \in Built }
             = { idx \in DOMAIN data_lines : data_lines[idx].infohash.len = HexLen }

\* C7: a malformed identifier (wrong length or not hexadecimal) is in no
\* scrape request and receives no verdict: no batch result and no entry of
\* the shared result map speaks of its line.
C7_MalformedNoVerdict ==
    \A idx \in DOMAIN data_lines :
        ~WellFormed(data_lines[idx].infohash) =>
            /\ \A b \in BatchIds : \A k \in DOMAIN hash_bytes[b] :
                 ~SameId(hex_encode(hash_bytes[b][k]), data_lines[idx].infohash)
            /\ \A b \in BatchIds : Items(b, idx) = {}
            /\ idx \notin DOMAIN updated_records
            /\ main_pc = "done" =>
                 stats.processed <= Cardinality({ j \in DOMAIN data_lines :
                                        WellFormed(data_lines[j].infohash) })

\* The verdict the run has recorded for a line.
HasVerdict(idx) == idx \in DOMAIN updated_records
DeadVerdict(idx) == HasVerdict(idx) /\ ~updated_records[idx].some

\* The catalogue in which only the records with a Dead verdict are missing.
RECURSIVE KeptLines(_)
KeptLines(i) ==
    IF i >= total
    THEN << >>
    ELSE (IF DeadVerdict(i) THEN << >>
          ELSE IF HasVerdict(i) THEN <<to_line(updated_records[i].rec)>>
          ELSE <<data_lines[i]>>)
         \o KeptLines(i + 1)

\* C8: after the file is rewritten a stored record is missing from the
\* catalogue only if its identifier received a Dead verdict in this run.
C8_MissingOnlyIfDead ==
    main_pc = "done" =>
        /\ Len(catalogue) = total - Cardinality({ i \in DOMAIN data_lines : DeadVerdict(i) })
        /\ catalogue = KeptLines(0)

\* C9: when the run over a file finishes, every identifier placed in a batch
\* has exactly one entry in the shared result map and was counted once in
\* the processed counter.
C9_OneVerdictEach ==
    main_pc = "done" =>
        /\ \A b \in Built : \A idx \in IndexSet(b) : HasVerdict(idx)
        /\ DOMAIN updated_records = UNION { IndexSet(b) : b \in Built }
        /\ stats.processed = Cardinality(UNION { IndexSet(b) : b \in Built })


\* The batch of the lines b * BATCH_SIZE .. (b + 1) * BATCH_SIZE - 1 has a
\* well-formed identifier.
HasWellFormed(b) ==
    \E idx \in DOMAIN data_lines :
        batch_number(idx) = b /\ WellFormed(data_lines[idx].infohash)

\* C10: for every batch with at least one well-formed identifier and every
\* configured tracker, a session is eventually started, and at no time has
\* more than one session been started for a batch and a tracker.
C10_OneSessionPerBatchAndTracker ==
    /\ [](\A b \in BatchIds, t \in TRACKERS : sessions[b][t] <= 1)
    /\ <>[](\A b \in BatchIds, t \in TRACKERS :
               HasWellFormed(b) => sessions[b][t] = 1)

C10_Witness ==
    /\ main_pc = "done"
    /\ \A b \in BatchIds, t \in TRACKERS : sessions[b][t] = 1
    /\ Len(progress) > 1


\* The endpoint sessions in flight: the tracker threads spawned whose call of
\* scrape_udp_tracker has not returned.
SessionsInFlight ==
    { p \in BatchIds \X TRACKERS : tracker_pc[p[1]][p[2]] \in {"spawned", "running"} }

\* C11: at every moment at most PARALLEL_BATCHES batch threads are spawned
\* and not yet joined, every batch thread that still runs is one of them, and
\* at most PARALLEL_BATCHES times the number of trackers sessions are in
\* flight.
C11_InFlightBounded ==
    /\ Cardinality(handles) <= PARALLEL_BATCHES
    /\ \A b \in BatchIds : batch_pc[b] \notin {"none", "finished"} => b \in handles
    /\ \A p \in SessionsInFlight : p[1] \in handles
    /\ Cardinality(SessionsInFlight) <= PARALLEL_BATCHES * Cardinality(TRACKERS)

C11_Witness ==
    /\ Cardinality(handles) = PARALLEL_BATCHES
    /\ Cardinality(SessionsInFlight) = PARALLEL_BATCHES * Cardinality(TRACKERS)
    /\ \E p \in SessionsInFlight : tracker_pc[p[1]][p[2]] = "running"


\* s is a prefix of the sequence q.
IsPrefix(s, q) == Len(s) <= Len(q) /\ SubSeq(q, 1, Len(s)) = s

\* The session of the tracker t for the batch b returns in this step.
Returns(b, t) == tracker_pc[b][t] = "running" /\ tracker_pc'[b][t] = "done"

\* A running session that fails at one step, or that unwinds, has nothing
\* to add to the result list of its batch.
FailureIsEmpty ==
    \A b \in BatchIds :
        (\E t \in TRACKERS : tracker_pc[b][t] = "running") =>
            \A net \in FailingNets(Min(ProtocolCap, Len(hash_bytes[b]))) :
                /\ catch_unwind(hash_bytes[b], net, FALSE).ok
                /\ catch_unwind(hash_bytes[b], net, FALSE).value = EmptyMap
                /\ ~catch_unwind(hash_bytes[b], net, TRUE).ok

\* The step in which a session returns keeps what the sibling sessions have
\* pushed and changes no other thread.
ReturnIsLocal ==
    \A b \in BatchIds, t \in TRACKERS :
        Returns(b, t) =>
            /\ IsPrefix(all_results[b], all_results'[b])
            /\ Len(all_results'[b]) <= Len(all_results[b]) + 1
            /\ \A b2 \in BatchIds \ {b} : all_results'[b2] = all_results[b2]
            /\ \A b2 \in BatchIds, t2 \in TRACKERS :
                  <<b2, t2>> # <<b, t>> => tracker_pc'[b2][t2] = tracker_pc[b2][t2]
            /\ UNCHANGED <<main_vars, shared_vars, batch_pc, batch_results>>

\* No session and no batch waits for another session: a session spawned can
\* start, a session running can return, a batch whose sessions have all
\* returned can consolidate, whatever the other sessions did.
NeverBlocked ==
    /\ \A b \in BatchIds, t \in TRACKERS :
          /\ tracker_pc[b][t] = "spawned" => ENABLED SessionStart(b, t)
          /\ tracker_pc[b][t] = "running" => ENABLED SessionReturn(b, t)
    /\ \A b \in BatchIds :
          (batch_pc[b] = "scraping" /\ \A t \in TRACKERS : tracker_pc[b][t] = "done")
              => ENABLED BatchConsolidate(b)

\* The verdicts of a batch are those of all the results its sessions pushed.
VerdictsFromAllResults ==
    \A b \in BatchIds :
        (Returned(b) /\ hash_bytes[b] # << >>) =>
            batch_results[b] = consolidate_batch(batch_indices[b], batch_hashes[b],
                                                 data_lines, all_results[b], 1)

ActionOf(datagram) == u32_from_be_bytes(slice(datagram, 0, 4))
TransOf(datagram) == u32_from_be_bytes(slice(datagram, 4, 8))

\* The call received, after its connect request, a datagram of `lengths`
\* bytes with action 0 and the transaction id of the connect request, and
\* after its scrape request a datagram of at least 8 bytes with action 2 and
\* the transaction id of the scrape request.
ValidExchange(lengths) ==
    /\ Len(session.sent) = 2
    /\ Len(session.rcvd) = 2
    /\ Len(session.rcvd[1]) \in lengths
    /\ ActionOf(session.rcvd[1]) = 0
    /\ TransOf(session.rcvd[1]) = u32_from_be_bytes(slice(session.sent[1], 12, 16))
    /\ Len(session.rcvd[2]) >= 8
    /\ ActionOf(session.rcvd[2]) = 2
    /\ TransOf(session.rcvd[2]) = u32_from_be_bytes(slice(session.sent[2], 12, 16))

\* C13: a call of scrape_udp_tracker returns a map that is not empty only if
\* it received a connect response of exactly 16 bytes with action 0 and the
\* transaction id of its connect request, and then a scrape response of at
\* least 8 bytes with action 2 and the transaction id of its scrape request;
\* after any other response the map returned is empty.
C13_NonEmptyOnlyAfterValidResponses ==
    (session.pc = "returned" /\ session.results # EmptyMap) => ValidExchange({16})

\* What holds of the call: the connect response has at least 16 bytes, of
\* which the first 16 are read.
C13_NonEmptyOnlyAfterValidPrefix ==
    (session.pc = "returned" /\ session.results # EmptyMap)
        => ValidExchange(16 .. (ConnectBuf + 4))


\* The call has decoded a valid scrape response of ReceivedLen bytes against
\* its ChunkSize identifiers.
ScrapeDecoded == session.pc = "returned" /\ ValidExchange(16 .. (ConnectBuf + 4))
ChunkSize == Min(ProtocolCap, Len(session.infohashes))
ReceivedLen == Len(recv(session.rcvd[2], ResponseBuf))

\* The key of the identifier at position j (from 0) and the 12 bytes of the
\* record j of the scrape response.
KeyAt(j) == to_lowercase(hex_encode(session.infohashes[j + 1]))
RecordAt(j) == slice(session.rcvd[2], 8 + (12 * j), 8 + (12 * (j + 1)))

\* The identifier at position j has an observation exactly when its record
\* was received whole, with the seeders of bytes 0 .. 3 and the leechers of
\* bytes 8 .. 11 of that record.
DecodedByPosition(j) ==
    /\ (KeyAt(j) \in DOMAIN session.results) <=> (8 + (12 * (j + 1)) <= ReceivedLen)
    /\ (8 + (12 * (j + 1)) <= ReceivedLen) =>
           /\ session.results[KeyAt(j)].seeders = u32_from_be_bytes(slice(RecordAt(j), 0, 4))
           /\ session.results[KeyAt(j)].leechers = u32_from_be_bytes(slice(RecordAt(j), 8, 12))

DistinctIdentifiers ==
    \A i, j \in DOMAIN session.infohashes :
        i # j => session.infohashes[i] # session.infohashes[j]

\* C14: when a valid scrape response of n bytes is decoded against k
\* identifiers, the identifier at position j (from 0) has an observation
\* exactly when 8 + 12 * (j + 1) <= n, with the seeders of bytes 0 .. 3 and
\* the leechers of bytes 8 .. 11 of record j; an identifier whose record is
\* not received whole has no observation.
C14_DecodedByPosition ==
    ScrapeDecoded => \A j \in 0 .. (ChunkSize - 1) : DecodedByPosition(j)

\* C14, for the calls whose identifiers are pairwise distinct.
C14_DecodedByPositionDistinct ==
    (ScrapeDecoded /\ DistinctIdentifiers) =>
        \A j \in 0 .. (ChunkSize - 1) : DecodedByPosition(j)

\* Two distinct identifiers, the record of the second cut by one byte: the
\* first has its observation, the second has none.
C14_Witness ==
    /\ ScrapeDecoded
    /\ DistinctIdentifiers
    /\ ChunkSize = 2
    /\ ReceivedLen = 31
    /\ DOMAIN session.results = {KeyAt(0)}
    /\ session.results[KeyAt(0)] = [seeders |-> MaxCount, leechers |-> MaxCount]


\* The bytes of 0x0000041727101980, most significant first.
MagicBytes == <<0, 0, 4, 23, 39, 16, 25, 128>>

\* The connect request the call sent: 16 bytes, the magic number, action 0,
\* the transaction id, big-endian.
ConnectRequestLayout ==
    Len(session.sent) >= 1 =>
        /\ Len(session.sent[1]) = 16
        /\ slice(session.sent[1], 0, 8) = MagicBytes
        /\ slice(session.sent[1], 8, 12) = <<0, 0, 0, 0>>
        /\ slice(session.sent[1], 12, 16) = <<0, 0, 0, session.transaction_id>>

\* The scrape request the call sent: bytes 8 .. 15 of the connect response,
\* action 2, the transaction id, and the first k identifiers, 20 bytes each,
\* in the order of the argument.
ScrapeRequestLayout ==
    Len(session.sent) >= 2 =>
        /\ Len(session.sent[2]) = 16 + (HashBytes * ChunkSize)
        /\ slice(session.sent[2], 0, 8) = slice(session.rcvd[1], 8, 16)
        /\ slice(session.sent[2], 8, 12) = <<0, 0, 0, 2>>
        /\ slice(session.sent[2], 12, 16) = <<0, 0, 0, session.scrape_trans_id>>
        /\ \A j \in 0 .. (ChunkSize - 1) :
             slice(session.sent[2], 16 + (HashBytes * j), 16 + (HashBytes * (j + 1)))
                 = raw(session.infohashes[j + 1])

\* C15: the connect request is 16 bytes: the magic 0x0000041727101980,
\* action 0 and the transaction id, big-endian; the scrape request is
\* 16 + 20 * k bytes: the connection token of the connect response, action 2,
\* a transaction id, then the first k = min(74, number of identifiers)
\* identifiers as 20 raw bytes each, in order.
C15_RequestLayouts ==
    /\ ConnectRequestLayout
    /\ ScrapeRequestLayout
    /\ Len(session.sent) <= 2

C15_Witness ==
    /\ Len(session.sent) = 2
    /\ ChunkSize = 2
    /\ DistinctIdentifiers
    /\ session.connection_id = [hi |-> 3, lo |-> 0]
    /\ session.transaction_id # session.scrape_trans_id


\* The batch threads between line 359 and the end of the closure, and those
\* between line 360 and the end of the closure.
InRecordsSection == { b \in BatchIds : batch_pc[b] \in {"locked_records", "locked"} }
InStatsSection == { b \in BatchIds : batch_pc[b] = "locked" }

\* At most one batch thread is in each section, and it holds the Mutex.
OneWriter ==
    /\ Cardinality(InRecordsSection) <= 1
    /\ Cardinality(InStatsSection) <= 1
    /\ records_lock = InRecordsSection
    /\ stats_lock = InStatsSection

\* The slots of the result map that differ between the two states of a step.
SlotsWritten ==
    { idx \in (DOMAIN updated_records) \cup (DOMAIN updated_records') :
        \/ idx \notin DOMAIN updated_records
        \/ idx \notin DOMAIN updated_records'
        \/ updated_records'[idx] # updated_records[idx] }

\* A step that changes the result map or the counters is the merge of one
\* batch thread that holds both locks; it writes only slots of the lines of
\* its own batch, none of which was written before.
WritesUnderLocks ==
    (updated_records' # updated_records \/ stats' # stats) =>
        \E b \in BatchIds :
            /\ records_lock = {b}
            /\ stats_lock = {b}
            /\ batch_pc[b] = "locked" /\ batch_pc'[b] = "finished"
            /\ SlotsWritten \subseteq IndexSet(b)
            /\ SlotsWritten \cap DOMAIN updated_records = {}

\* C16: the writes of the batch threads to the shared result map and to the
\* shared counters are mutually exclusive, and no two threads write the slot
\* of the same line index.
C16_WritesMutuallyExclusive ==
    /\ [](OneWriter /\ \A b1, b2 \in Built : b1 # b2 => IndexSet(b1) \cap IndexSet(b2) = {})
    /\ [][WritesUnderLocks]_vars

\* One batch thread holds both locks and is about to write, another has its
\* result and waits for the lock; the first has already written nothing.
C16_Witness ==
    \E b1, b2 \in BatchIds :
        /\ batch_pc[b1] = "locked" /\ batch_results[b1] # << >>
        /\ batch_pc[b2] = "aggregated" /\ batch_results[b2] # << >>
        /\ ~ENABLED BatchLockRecords(b2)


\* The run recorded the verdict Failed for the line idx: its stored record,
\* with the stored seeders, leechers and scraped_date.
FailedVerdict(idx) ==
    /\ HasVerdict(idx)
    /\ updated_records[idx].some
    /\ updated_records[idx] = from_line(data_lines[idx])

\* The line of the rewritten catalogue that stands for the line idx, when it
\* was written.
WrittenFor(idx) ==
    catalogue[Cardinality({ i \in 0 .. idx :
                              i \in DOMAIN updated_records /\ updated_records[i].some })]

\* C17: when the verdict of an identifier is Failed, the line written back
\* to the catalogue for it is identical to the stored line, every field
\* unchanged.
C17_FailedLineUntouched ==
    main_pc = "done" =>
        \A idx \in DOMAIN data_lines :
            FailedVerdict(idx) => WrittenFor(idx) = data_lines[idx]

\* What holds of a Failed verdict: the line written back has the stored
\* infohash, seeders, leechers and scraped_date.
C17_FailedLineKeepsCounts ==
    main_pc = "done" =>
        \A idx \in DOMAIN data_lines :
            FailedVerdict(idx) =>
                /\ WrittenFor(idx).infohash = data_lines[idx].infohash
                /\ WrittenFor(idx).seeders = data_lines[idx].seeders
                /\ WrittenFor(idx).leechers = data_lines[idx].leechers
                /\ WrittenFor(idx).scraped_date = data_lines[idx].scraped_date


\* The verdict of the identifier at position i of the batch b, from the
\* observations of its sessions: Failed when no tracker answered for it,
\* Alive when some answer is positive, Dead when all answers are zero.
VerdictOf(b, i) ==
    LET obs == Observations(b, batch_hashes[b][i])
    IN  IF obs = {} THEN "Failed"
        ELSE IF \E o \in obs : Positive(o) THEN "Alive"
        ELSE "Dead"

CountOf(b, verdict) == Cardinality({ i \in Positions(b) : VerdictOf(b, i) = verdict })

\* The batch thread b merges its result in this step and completes.
MergeStep(b) == batch_pc[b] = "locked" /\ batch_pc'[b] = "finished"

\* The merge of a batch adds to each counter the number of identifiers of
\* the batch with that verdict.
MergeCountsVerdicts ==
    \A b \in BatchIds :
        MergeStep(b) =>
            /\ stats'.alive = stats.alive + CountOf(b, "Alive")
            /\ stats'.dead = stats.dead + CountOf(b, "Dead")
            /\ stats'.failed = stats.failed + CountOf(b, "Failed")

\* A progress report prints the counters, after every batch thread spawned
\* so far has completed.
ReportsCounters ==
    progress' # progress =>
        /\ progress' = Append(progress, stats)
        /\ \A b \in Built : batch_pc[b] = "finished"

\* C18: at every progress report the alive, dead and failed counters are
\* the numbers of identifiers of the batches completed so far whose verdicts
\* are Alive, Dead and Failed; an identifier for which no tracker answered is
\* counted in failed and not in alive.
C18_CountersMatchVerdicts ==
    /\ [](progress = << >> /\ Built = {} => stats = ZeroStats)
    /\ [][MergeCountsVerdicts /\ ReportsCounters]_vars

\* The last part of C18 alone, for the batches whose lines all parse as
\* records and whose identifiers all decode: when no tracker answered for
\* any identifier of the batch, its merge leaves the alive counter as it is.
C18_NoAnswerNotCountedAlive ==
    [][\A b \in BatchIds :
         (/\ MergeStep(b)
          /\ Len(hash_bytes[b]) = Len(batch_hashes[b])
          /\ \A i \in Positions(b) :
               /\ from_line(data_lines[batch_indices[b][i]]).some
               /\ VerdictOf(b, i) = "Failed")
            => stats'.alive = stats.alive]_vars


\* The batches with identifiers for which no batch thread was spawned yet.
NotStarted ==
    { b \in BatchIds :
        /\ b * BATCH_SIZE < total
        /\ build_batch(data_lines, b * BATCH_SIZE,
                       Min((b * BATCH_SIZE) + BATCH_SIZE, total)).hashes # << >>
        /\ batch_pc[b] = "none" }

\* The main thread can take a step: it is not waiting in handle.join() for
\* a batch thread that still runs.
MainCanStep ==
    ENABLED (MainSpawnBatch \/ MainSkipBatch \/ MainEndChunk \/ MainJoin \/ MainReport)

\* C19: whenever fewer than PARALLEL_BATCHES batch threads are in flight
\* (spawned and not yet joined) and some batch has not started yet, the main
\* thread can go on to start it: it does not wait for a batch thread in
\* flight to finish.
C19_NoUnitBlocksAnother ==
    (Cardinality(handles) < PARALLEL_BATCHES /\ NotStarted # {}) => MainCanStep

\* What holds: while the batch loop of a chunk runs, the main thread never
\* waits; it waits only in the join loop at the end of the chunk.
C19_NoWaitInsideChunk ==
    (main_pc = "spawn" /\ NotStarted # {}) => MainCanStep


\* The infohashes of the data lines of the catalogue are pairwise distinct.
DistinctInfohashes ==
    \A i, j \in 2 .. Len(csv.file) :
        i # j => first_field(csv.file[i]) # first_field(csv.file[j])

\* The count a call returns is the number of lines it appended.
CountIsAppended ==
    csv'.result.ok => csv'.result.count = Len(csv'.file) - Len(csv.file)

\* C20: after any sequence of append_torrents_to_csv calls on a catalogue
\* whose data lines first have pairwise distinct infohashes, no two data
\* lines of the catalogue have the same infohash, and the count a call
\* returns is the number of lines it appended.
C20_DedupOnWrite ==
    /\ []DistinctInfohashes
    /\ [][CountIsAppended]_vars

\* What holds: a call appends no record whose infohash is the first field of
\* a data line that was in the catalogue before the call, and a call that
\* returns a count returns the number of lines it appended.
C20_DedupAgainstFile ==
    [][/\ CountIsAppended
       /\ \A i \in (Len(csv.file) + 1) .. Len(csv'.file) :
            \E k \in DOMAIN csv'.records :
                /\ csv'.file[i] = to_csv_line(csv'.records[k])
                /\ csv'.records[k].infohash \notin read_existing_infohashes(csv.file)]_vars


\* The text of s between the first occurrence of the marker and the next
\* '&' or the end of s, in lower case.
LowercasedUpToSeparator(s) ==
    LET first == find(s, Marker, 1)
        rest == SubSeq(s, first + Len(Marker), Len(s))
        amp == find(rest, <<"&">>, 1)
    IN  chars_to_lowercase(IF amp = 0 THEN rest ELSE SubSeq(rest, 1, amp - 1))

C21_ExtractsInfohashOneMarker ==
    magnet.pc = "returned" =>
        IF find(magnet.magnet, Marker, 1) = 0
        THEN magnet.result = [some |-> FALSE]
        ELSE \/ magnet.result = [some |-> TRUE, value |-> LowercasedUpToSeparator(magnet.magnet)]
             \/ find(LowercasedUpToSeparator(magnet.magnet), Marker, 1) # 0


\* The datagram answers the connect request req: action 0, the transaction
\* id of req, and a length in `lengths`.
ConnectResponseTo(datagram, req, lengths) ==
    /\ Len(datagram) \in lengths
    /\ ActionOf(datagram) = 0
    /\ TransOf(datagram) = u32_from_be_bytes(slice(req, 12, 16))

\* The call has sent at most a connect request and then a scrape request.
OneRequestEach ==
    /\ Len(session.sent) <= 2
    /\ Len(session.sent) >= 1 => u32_from_be_bytes(slice(session.sent[1], 8, 12)) = 0
    /\ Len(session.sent) = 2 => u32_from_be_bytes(slice(session.sent[2], 8, 12)) = 2

\* The scrape request of the call carries the connection id of the connect
\* response the call received.
CarriesOwnToken ==
    Len(session.sent) = 2 =>
        /\ Len(session.rcvd) >= 1
        /\ slice(session.sent[2], 0, 8) = slice(session.rcvd[1], 8, 16)

\* The step that sends the scrape request is taken after one datagram was
\* received, which answers the connect request with a length in `lengths`.
ScrapeAfterConnect(lengths) ==
    (Len(session.sent) = 1 /\ Len(session'.sent) = 2) =>
        /\ Len(session.rcvd) = 1
        /\ session'.rcvd = session.rcvd
        /\ ConnectResponseTo(session.rcvd[1], session.sent[1], lengths)

\* C22: in a call of scrape_udp_tracker the scrape request is sent only
\* after a valid connect response (16 bytes, action 0, the transaction id of
\* the connect request) was received in that call, it carries the connection
\* id of that response and of no other, and the call sends at most one
\* connect request and at most one scrape request.
C22_ScrapeOnlyAfterValidConnect ==
    /\ [](OneRequestEach /\ CarriesOwnToken)
    /\ [][ScrapeAfterConnect({16})]_vars

\* What holds of the call: the same, with a connect response of at least 16
\* bytes.
C22_ScrapeOnlyAfterAcceptedConnect ==
    /\ [](OneRequestEach /\ CarriesOwnToken)
    /\ [][ScrapeAfterConnect(16 .. (ConnectBuf + 4))]_vars


\* Every thread of the run has ended: the sessions have returned, the batch
\* threads have finished and were joined, the catalogue was written.
AllEnded ==
    /\ main_pc = "done"
    /\ handles = {}
    /\ \A b \in BatchIds : batch_pc[b] \in {"none", "finished"}
    /\ \A b \in BatchIds, t \in TRACKERS : tracker_pc[b][t] \in {"none", "done"}

\* The session of the tracker t for the batch b has not returned.
Pending(b, t) == tracker_pc[b][t] \in {"spawned", "running"}

\* The networks of k identifiers whose tracker is silent: the receive of
\* the connect response times out.
SilentNets(k) == { [g EXCEPT !.connect_resp.ok = FALSE] : g \in AnsweringNets(k) }

\* A session that has not returned is not held up by any other session: it
\* can start, and return; with a silent tracker it returns the empty map.
\* The batch thread that waits for it holds no lock that another batch thread
\* could wait for.
DelaysOnlyItsOwn ==
    \A b \in BatchIds, t \in TRACKERS :
        Pending(b, t) =>
            /\ ENABLED (SessionStart(b, t) \/ SessionReturn(b, t))
            /\ \A net \in SilentNets(Min(ProtocolCap, Len(hash_bytes[b]))) :
                  scrape_udp_tracker(hash_bytes[b], net) = EmptyMap
            /\ batch_pc[b] = "scraping"
            /\ b \notin (records_lock \cup stats_lock)

WaitsFor(b) ==
    IF batch_pc[b] = "aggregated" THEN records_lock \ {b}
    ELSE IF batch_pc[b] = "locked_records" THEN stats_lock \ {b}
    ELSE {}

\* The batch threads b waits for, directly or through others.
RECURSIVE WaitsForWithin(_, _)
WaitsForWithin(b, n) ==
    IF n = 0 THEN {}
    ELSE WaitsFor(b) \cup UNION { WaitsForWithin(h, n - 1) : h \in WaitsFor(b) }

\* A batch thread holds the lock of the counters only with the lock of the
\* result map, holds locks only between its lock() calls and its end, and
\* every lock is held by at most one thread.
LockOrder ==
    /\ stats_lock \subseteq records_lock
    /\ Cardinality(records_lock) <= 1
    /\ \A b \in BatchIds :
          /\ b \in records_lock <=> batch_pc[b] \in {"locked_records", "locked"}
          /\ b \in stats_lock <=> batch_pc[b] = "locked"

\* No batch thread waits for itself, and a batch thread that waits for a
\* lock waits for a thread that can take a step.
NoWaitCycle ==
    \A b \in BatchIds :
        /\ b \notin WaitsForWithin(b, Cardinality(BatchIds))
        /\ batch_pc[b] = "aggregated" =>
              \/ ENABLED BatchLockRecords(b)
              \/ \E h \in records_lock : ENABLED (BatchLockStats(h) \/ BatchMerge(h))
        /\ batch_pc[b] = "locked_records" =>
              \/ ENABLED BatchLockStats(b)
              \/ \E h \in stats_lock : ENABLED BatchMerge(h)
        /\ batch_pc[b] = "locked" => ENABLED BatchMerge(b)

\* The steps of the locks: the lock of the result map is taken before the
\* lock of the counters, both are released in the step that ends the batch
\* thread, a tracker thread touches neither and only the result list of its
\* own batch, and the main thread reads the counters when it has joined every batch thread and the lock is free.
LockSteps ==
    /\ \A b \in BatchIds :
          /\ (b \in stats_lock' /\ b \notin stats_lock) => b \in records_lock
          /\ (b \in records_lock' /\ b \notin records_lock) => b \notin stats_lock
          /\ (batch_pc'[b] = "finished" /\ batch_pc[b] # "finished") =>
                 /\ b \in records_lock /\ b \in stats_lock
                 /\ b \notin records_lock' /\ b \notin stats_lock'
    /\ \A b \in BatchIds, t \in TRACKERS :
          tracker_pc'[b][t] # tracker_pc[b][t] =>
              /\ UNCHANGED <<records_lock, stats_lock, updated_records, stats>>
              /\ \A b2 \in BatchIds \ {b} : all_results'[b2] = all_results[b2]
    /\ progress' # progress =>
          /\ handles = {}
          /\ \A b \in BatchIds : batch_pc[b] \in {"none", "finished"}
          /\ stats_lock = {} /\ stats_lock' = {}
          /\ records_lock = {} /\ records_lock' = {}

\* C24: the run never deadlocks on its locks: a batch thread takes the lock
\* of the result map before the lock of the counters and releases both when
\* it ends, the tracker threads take neither, the main thread takes the lock
\* of the counters after it joined the batch threads of the chunk and
\* releases it before the next chunk, and in no state do threads wait for
\* each other's locks in a cycle.
C24_NoLockDeadlock ==
    /\ [](LockOrder /\ NoWaitCycle)
    /\ [][LockSteps]_vars

\* One batch thread holds the lock of the result map and is about to take
\* the lock of the counters, which is free, while a second batch thread
\* waits for the lock of the result map.
C24_Witness ==
    \E b1, b2 \in BatchIds :
        /\ batch_pc[b1] = "locked_records"
        /\ stats_lock = {}
        /\ batch_pc[b2] = "aggregated"
        /\ WaitsFor(b2) = {b1}
        /\ ~ENABLED BatchLockRecords(b2)


\* The keys of the identifiers given to the call.
OwnKeys == { KeyAt(j) : j \in 0 .. (Len(session.infohashes) - 1) }

\* The identifier at position j (from 0) has an observation in the map the
\* call returns.
Observed(j) == KeyAt(j) \in DOMAIN session.results

\* C25: the map a call of scrape_udp_tracker returns has only identifiers
\* of the call's own batch, and for a batch of distinct identifiers it is
\* closed under going to an earlier position: when the identifier at
\* position j has an observation, so has the identifier at every position
\* i < j.
C25_PrefixClosed ==
    session.pc = "returned" =>
        /\ DOMAIN session.results \subseteq OwnKeys
        /\ DistinctIdentifiers =>
              \A j \in 0 .. (Len(session.infohashes) - 1) :
                  Observed(j) => \A i \in 0 .. (j - 1) : Observed(i)

\* Two distinct identifiers and a scrape response that ends after its first
\* record: the first identifier has an observation, the second has none.
C25_Witness ==
    /\ session.pc = "returned"
    /\ DistinctIdentifiers
    /\ Len(session.infohashes) = 2
    /\ Len(session.rcvd) = 2
    /\ Len(session.rcvd[2]) = 20
    /\ Observed(0)
    /\ ~Observed(1)

=============================================================================
